---- MODULE Spec2Model ----
(***************************************************************************)
(* The buildEndpointOption middleware of api/server/middleware:            *)
(* normalisation of the client conversation, enforcement of the model spec *)
(* catalog, dispatch to the provider's option builder and enrichment of    *)
(* the option object with the models catalog and the attachments promise.  *)
(*                                                                         *)
(* An optional JavaScript value (a field that may be undefined) is a set:  *)
(* {} when it is absent and {v} when it holds v.                           *)
(***************************************************************************)
EXTENDS Naturals, Sequences, FiniteSets, TLC

\* Longest modelSpecs.list and longest req.body.files the model draws.
MaxSpecs == 2
MaxFiles == 1
\* Longest modelSpecs.list of the runs checked for progress (FairSpec).
FairMaxSpecs == 1

The(o) == CHOOSE x \in o : TRUE

SeqsUpTo(S, n) == UNION {[1..k -> S] : k \in 0..n}

\* ---------------------------------------------------------------- inputs

\* EModelEndpoint.gptPlugins, the only endpoint whose preset may carry tools.
gptPlugins == "gptPlugins"

\* The provider identifiers a request names in `endpoint`.
RequestEndpoints == {"openAI", gptPlugins, "agents"}

\* req.body.endpointType: absent, a protocol variant, or an identifier
\* that has no entry in buildFunction.
RequestEndpointTypes == {{}, {"azureOpenAI"}, {"unknownProvider"}}

\* The names of the administrator's model specs.
SpecNames == {"S", "T"}

\* req.body.spec as the client sends it: absent, empty, or a name.
ClientSpecs == {{}, {""}, {"S"}}

FileLists == SeqsUpTo({"f1"}, MaxFiles)

\* The catalogs getModelsConfig may resolve to.
ModelsCatalogs == {"modelsA", "modelsB"}

\* req.body as it arrives: endpointOption is not set yet.  `malformed`
\* stands for a payload the conversation schema rejects.
Bodies ==
  [endpoint : RequestEndpoints,
   endpointType : RequestEndpointTypes,
   spec : ClientSpecs,
   temperature : {{"0.9"}},
   tools : {{}},
   malformed : BOOLEAN,
   files : {{}} \cup {{f} : f \in FileLists},
   endpointOption : {{}}]

\* TModelSpec.preset: a conversation preset written by the administrator.
Presets ==
  [endpoint : {"openAI", gptPlugins},
   spec : {{}},
   temperature : {{"0.2"}},
   tools : {{}, {<<"calculator">>}},
   malformed : BOOLEAN]

\* The catalog entries.  Clients of the model ask for "S" only, so the
\* preset of an entry of another name is never read (line 46 compares
\* names): one preset is enough for those.
ModelSpecEntries ==
  [name : {"S"}, preset : Presets] \cup
  {[name |-> n,
    preset |-> [endpoint |-> "openAI", spec |-> {}, temperature |-> {"0.2"},
                tools |-> {}, malformed |-> FALSE]] : n \in SpecNames \ {"S"}}

\* req.app.locals.modelSpecs: absent, without a list, or with one.
ModelSpecsConfigsUpTo(n) ==
  {{}} \cup
  {{[list |-> l, enforce |-> e]} :
     l \in {{}} \cup {{s} : s \in SeqsUpTo(ModelSpecEntries, n)},
     e \in BOOLEAN}

ModelSpecsConfigs == ModelSpecsConfigsUpTo(MaxSpecs)

\* ----------------------------------------------------------------- state

VARIABLES
  modelSpecs,        \* req.app.locals.modelSpecs, shared by every request
  body,              \* req.body of each request
  pc,                \* each pipeline's position
  parsedBody,        \* the local `parsedBody` of each pipeline
  parseCalls,        \* the calls of parseCompactConvo, in order
  handleErrorCalls,  \* the texts given to handleError, in order
  builderCalls,      \* the calls of a provider's buildOptions, in order
  modelsPromise,     \* the promise getModelsConfig(req) returned
  attachPromise,     \* the promise processFiles(files) returned
  processFilesCalls, \* the arguments of processFiles, in order
  getModelsConfigCalls, \* how many times getModelsConfig(req) was called
  nextCalls,         \* how many times next() was called
  running            \* the request whose synchronous section is executing

vars == <<modelSpecs, body, pc, parsedBody, parseCalls, handleErrorCalls,
          builderCalls, modelsPromise, attachPromise, processFilesCalls,
          getModelsConfigCalls, nextCalls, running>>

\* The requests a run may hold; those of a run are the domain of pc.
AllRequests == {"r1", "r2"}
Requests == DOMAIN pc

\* ------------------------------------------------- external collaborators

\* parseCompactConvo fails on a payload its schema rejects.
ParseThrows(conversation) == conversation.malformed

\* parseCompactConvo({endpoint, endpointType, conversation}): the
\* normalised conversation; it keeps the conversation parameters and drops
\* everything else (files, endpointOption).
parseCompactConvo(endpoint, endpointType, conversation) ==
  [endpoint |-> endpoint,
   endpointType |-> endpointType,
   spec |-> conversation.spec,
   temperature |-> conversation.temperature,
   tools |-> conversation.tools]

isAgentsEndpoint(endpoint) == endpoint = "agents"

\* -------------------------------------------------------------- the code

\* The dispatch table: the builder of an identifier, {} when it has none.
buildFunction(id) ==
  CASE id = "openAI" -> {"openAI.buildOptions"}
    [] id = "google" -> {"google.buildOptions"}
    [] id = "custom" -> {"custom.buildOptions"}
    [] id = "agents" -> {"agents.buildOptions"}
    [] id = "bedrock" -> {"bedrock.buildOptions"}
    [] id = "azureOpenAI" -> {"openAI.buildOptions"}
    [] id = "anthropic" -> {"anthropic.buildOptions"}
    [] id = gptPlugins -> {"gptPlugins.buildOptions"}
    [] id = "assistants" -> {"assistants.buildOptions"}
    [] id = "azureAssistants" -> {"azureAssistants.buildOptions"}
    [] OTHER -> {}

\* a ?? b
Coalesce(a, b) == IF a = {} THEN b ELSE The(a)

\* JavaScript truthiness of an optional string and of an optional array.
TruthyString(o) == o # {} /\ o # {""}
TruthyArray(o) == o # {}

\* A slip: the enforce flag is not read.
EnforcementActive_IgnoresFlag(ms) ==
  /\ ms # {}
  /\ TruthyArray(The(ms).list)

\* req.app.locals.modelSpecs?.list && req.app.locals.modelSpecs?.enforce
EnforcementActive(ms) ==
  /\ ms # {}
  /\ TruthyArray(The(ms).list)
  /\ The(ms).enforce

\* True while no other request is inside a synchronous section.
MayRun(r) == running \subseteq {r}

Init0(R, configs, bodies) ==
  /\ modelSpecs \in configs
  /\ body \in [R -> bodies]
  /\ pc = [r \in R |-> "Start"]
  /\ parsedBody = [r \in R |-> {}]
  /\ parseCalls = [r \in R |-> <<>>]
  /\ handleErrorCalls = [r \in R |-> <<>>]
  /\ builderCalls = [r \in R |-> <<>>]
  /\ modelsPromise = [r \in R |-> [state |-> "none", value |-> {}]]
  /\ attachPromise = [r \in R |-> "none"]
  /\ processFilesCalls = [r \in R |-> <<>>]
  /\ getModelsConfigCalls = [r \in R |-> 0]
  /\ nextCalls = [r \in R |-> 0]
  /\ running = {}

Init == Init0({"r1"}, ModelSpecsConfigs, Bodies)

\* Lines 29-37: parse the client payload, report a parse error, and decide
\* whether the spec enforcer runs.
ParseErrorText == "Error parsing conversation"

\* A slip: handleError is called without `return`, and the function goes on.
ErrorExit_FallsThrough == "Dispatching"

\* Lines 34, 43, 48, 52, 59 and 71: `return handleError(...)` ends the
\* invocation.
ErrorExit == "Failed"

Normalize(r) ==
  /\ r \in Requests
  /\ pc[r] = "Start"
  /\ MayRun(r)
  /\ LET b == body[r] IN
     /\ parseCalls' = [parseCalls EXCEPT ![r] =
          Append(@, [endpoint |-> b.endpoint, endpointType |-> b.endpointType,
                     conversation |-> "req.body"])]
     /\ IF ParseThrows(b)
          THEN /\ handleErrorCalls' = [handleErrorCalls EXCEPT ![r] = Append(@, ParseErrorText)]
               /\ pc' = [pc EXCEPT ![r] = ErrorExit]
               /\ running' = {}
               /\ UNCHANGED parsedBody
          ELSE /\ parsedBody' = [parsedBody EXCEPT ![r] =
                    {parseCompactConvo(b.endpoint, b.endpointType, b)}]
               /\ pc' = [pc EXCEPT ![r] =
                    IF EnforcementActive(modelSpecs) THEN "EnforcingSpec" ELSE "Dispatching"]
               /\ running' = {r}
               /\ UNCHANGED handleErrorCalls
  /\ UNCHANGED <<modelSpecs, body, builderCalls, modelsPromise, attachPromise,
                 processFilesCalls, getModelsConfigCalls, nextCalls>>

\* Lines 38-73: the spec enforcer.

\* A slip: the last entry of the name is found.
FindSpec_Last(list, spec) ==
  LET hits == {i \in 1..Len(list) : list[i].name = spec} IN
  IF hits = {} THEN {}
  ELSE {list[CHOOSE i \in hits : \A j \in hits : j <= i]}

\* list.find((s) => s.name === spec): the first entry of that name.
FindSpec(list, spec) ==
  LET hits == {i \in 1..Len(list) : list[i].name = spec} IN
  IF hits = {} THEN {}
  ELSE {list[CHOOSE i \in hits : \A j \in hits : i <= j]}

\* A slip: only an absent spec is refused, not an empty one.
NoSpec_AbsentOnly(parsed) == parsed.spec = {}

\* Line 42: !spec
NoSpec(parsed) == ~TruthyString(parsed.spec)

\* A slip: the preset's endpoint is compared with the dispatch identifier.
EndpointMismatch_DispatchId(b, currentModelSpec) ==
  Coalesce(b.endpointType, b.endpoint) # currentModelSpec.preset.endpoint

\* Line 51: endpoint !== currentModelSpec.preset.endpoint
EndpointMismatch(b, currentModelSpec) ==
  b.endpoint # currentModelSpec.preset.endpoint

\* A slip: tools are refused for every endpoint.
ToolsNotAllowed_AnyEndpoint(currentModelSpec) ==
  TruthyArray(currentModelSpec.preset.tools)

\* Lines 55-58: a preset of another endpoint than gptPlugins has tools.
ToolsNotAllowed(currentModelSpec) ==
  /\ currentModelSpec.preset.endpoint # gptPlugins
  /\ TruthyArray(currentModelSpec.preset.tools)

NoSpecText == "No model spec selected"
InvalidSpecText == "Invalid model spec"
SpecMismatchText == "Model spec mismatch"
ToolsText == "Only the \"" \o gptPlugins \o "\" endpoint can have tools defined in the preset"
\* A slip: the text of the first parse is reused for the second.
PresetParseErrorText_Reused == "Error parsing conversation"

PresetParseErrorText == "Error parsing model spec"

\* A slip: the tools check is made before the endpoint comparison.
PolicyError_ToolsFirst(b, parsed, list) ==
  IF NoSpec(parsed) THEN {NoSpecText}
  ELSE LET found == FindSpec(list, The(parsed.spec)) IN
    IF found = {} THEN {InvalidSpecText}
    ELSE IF ToolsNotAllowed(The(found)) THEN {ToolsText}
    ELSE IF EndpointMismatch(b, The(found)) THEN {SpecMismatchText}
    ELSE {}

\* Lines 42-62: the text of the first check that fails, {} when all pass.
PolicyError(b, parsed, list) ==
  IF NoSpec(parsed) THEN {NoSpecText}
  ELSE LET found == FindSpec(list, The(parsed.spec)) IN
    IF found = {} THEN {InvalidSpecText}
    ELSE IF EndpointMismatch(b, The(found)) THEN {SpecMismatchText}
    ELSE IF ToolsNotAllowed(The(found)) THEN {ToolsText}
    ELSE {}

\* A slip: the last entry of the name is taken for the preset.
EnforcedConversation_LastMatch(parsed, list) ==
  LET hits == {i \in 1..Len(list) : list[i].name = The(parsed.spec)} IN
  list[CHOOSE i \in hits : \A j \in hits : j <= i].preset

\* Lines 64-69: the conversation the preset is parsed from.
EnforcedConversation(parsed, list) == The(FindSpec(list, The(parsed.spec))).preset

EnforceSpec(r) ==
  /\ r \in Requests
  /\ pc[r] = "EnforcingSpec"
  /\ MayRun(r)
  /\ LET b == body[r]
         list == The(The(modelSpecs).list)
         parsed == The(parsedBody[r])
         err == PolicyError(b, parsed, list)
     IN
     IF err # {}
       THEN /\ handleErrorCalls' = [handleErrorCalls EXCEPT ![r] = Append(@, The(err))]
            /\ pc' = [pc EXCEPT ![r] = ErrorExit]
            /\ running' = {}
            /\ UNCHANGED <<parsedBody, parseCalls>>
       ELSE LET preset == EnforcedConversation(parsed, list) IN
            /\ parseCalls' = [parseCalls EXCEPT ![r] =
                 Append(@, [endpoint |-> b.endpoint, endpointType |-> b.endpointType,
                            conversation |-> "preset"])]
            /\ IF ParseThrows(preset)
                 THEN /\ handleErrorCalls' = [handleErrorCalls EXCEPT ![r] =
                           Append(@, PresetParseErrorText)]
                      /\ pc' = [pc EXCEPT ![r] = ErrorExit]
                      /\ running' = {}
                      /\ UNCHANGED parsedBody
                 ELSE /\ parsedBody' = [parsedBody EXCEPT ![r] =
                           {parseCompactConvo(b.endpoint, b.endpointType, preset)}]
                      /\ pc' = [pc EXCEPT ![r] = "Dispatching"]
                      /\ running' = {r}
                      /\ UNCHANGED handleErrorCalls
  /\ UNCHANGED <<modelSpecs, body, builderCalls, modelsPromise, attachPromise,
                 processFilesCalls, getModelsConfigCalls, nextCalls>>

\* Lines 75-79: select the builder, bind the request for the agents
\* endpoint, invoke it and store what it returns.

\* A slip: the table is indexed by endpoint alone.
EndpointFn_EndpointOnly(b) == buildFunction(b.endpoint)

\* A slip: an identifier without entry falls back to the endpoint's builder.
EndpointFn_FallsBack(b) ==
  LET fn == buildFunction(Coalesce(b.endpointType, b.endpoint)) IN
  IF fn = {} THEN buildFunction(b.endpoint) ELSE fn

\* Line 75: buildFunction[endpointType ?? endpoint]
EndpointFn(b) == buildFunction(Coalesce(b.endpointType, b.endpoint))

\* Line 76: the agents endpoint's builder is given req before the others.
PassesRequest(b) == isAgentsEndpoint(b.endpoint)

\* A slip: under enforcement the builder is the one of the preset's
\* endpoint, and the request's endpointType is not passed on.
BuilderCall_PresetSelects(b, parsed) ==
  [fn |-> IF EnforcementActive(modelSpecs)
            THEN The(buildFunction(parsed.endpoint))
            ELSE The(EndpointFn(b)),
   req |-> PassesRequest(b),
   endpoint |-> b.endpoint,
   conversation |-> parsed,
   endpointType |-> IF EnforcementActive(modelSpecs) THEN {} ELSE b.endpointType]

\* Line 79: the arguments the selected builder is invoked with.
BuilderCall(b, parsed) ==
  [fn |-> The(EndpointFn(b)),
   req |-> PassesRequest(b),
   endpoint |-> b.endpoint,
   conversation |-> parsed,
   endpointType |-> b.endpointType]

\* What a provider's buildOptions returns: the conversation with the
\* builder's own fields; modelsConfig and attachments are not set by it.
buildOptions(call) ==
  [builtBy |-> call.fn,
   endpoint |-> call.endpoint,
   endpointType |-> call.endpointType,
   conversation |-> call.conversation,
   modelsConfig |-> {},
   attachments |-> {}]

\* A slip: the normalised conversation is copied onto req.body too.
StoreOption_MergesConversation(b, option) ==
  [b EXCEPT !.endpointOption = {option},
            !.spec = option.conversation.spec,
            !.temperature = option.conversation.temperature]

\* Line 79: req.body.endpointOption = <what the builder returned>
StoreOption(b, option) == [b EXCEPT !.endpointOption = {option}]

Dispatch(r) ==
  /\ r \in Requests
  /\ pc[r] = "Dispatching"
  /\ MayRun(r)
  /\ LET b == body[r] IN
     IF EndpointFn(b) = {}
       THEN \* undefined is not a function: the async function rejects
            /\ pc' = [pc EXCEPT ![r] = "Faulted"]
            /\ running' = {}
            /\ UNCHANGED <<body, builderCalls>>
       ELSE LET call == BuilderCall(b, The(parsedBody[r])) IN
            /\ builderCalls' = [builderCalls EXCEPT ![r] = Append(@, call)]
            /\ \/ \* the builder throws
                  /\ pc' = [pc EXCEPT ![r] = "Faulted"]
                  /\ running' = {}
                  /\ UNCHANGED body
               \/ \* the builder returns
                  /\ body' = [body EXCEPT ![r] = StoreOption(@, buildOptions(call))]
                  /\ pc' = [pc EXCEPT ![r] = "Built"]
                  /\ running' = {r}
  /\ UNCHANGED <<modelSpecs, parsedBody, parseCalls, handleErrorCalls, modelsPromise,
                 attachPromise, processFilesCalls, getModelsConfigCalls, nextCalls>>

\* Line 82: getModelsConfig(req) is called and the pipeline suspends on it.
GetModelsConfig(r) ==
  /\ r \in Requests
  /\ pc[r] = "Built"
  /\ MayRun(r)
  /\ getModelsConfigCalls' = [getModelsConfigCalls EXCEPT ![r] = @ + 1]
  /\ modelsPromise' = [modelsPromise EXCEPT ![r] = [state |-> "pending", value |-> {}]]
  /\ pc' = [pc EXCEPT ![r] = "AwaitingModels"]
  /\ running' = {}
  /\ UNCHANGED <<modelSpecs, body, parsedBody, parseCalls, handleErrorCalls, builderCalls,
                 attachPromise, processFilesCalls, nextCalls>>

\* The models controller settles the promise of a request, in a turn of
\* the event loop of its own (no synchronous section is executing).
ModelsConfigResolves(r) ==
  /\ r \in Requests
  /\ running = {}
  /\ modelsPromise[r].state = "pending"
  /\ \E catalog \in ModelsCatalogs :
       modelsPromise' = [modelsPromise EXCEPT ![r] = [state |-> "resolved", value |-> {catalog}]]
  /\ UNCHANGED <<modelSpecs, body, pc, parsedBody, parseCalls, handleErrorCalls, builderCalls,
                 attachPromise, processFilesCalls, getModelsConfigCalls, nextCalls, running>>

ModelsConfigRejects(r) ==
  /\ r \in Requests
  /\ running = {}
  /\ modelsPromise[r].state = "pending"
  /\ modelsPromise' = [modelsPromise EXCEPT ![r] = [state |-> "rejected", value |-> {}]]
  /\ UNCHANGED <<modelSpecs, body, pc, parsedBody, parseCalls, handleErrorCalls, builderCalls,
                 attachPromise, processFilesCalls, getModelsConfigCalls, nextCalls, running>>

\* A slip: the awaited catalog is dropped.
SetModelsConfig_Dropped(option, modelsConfig) == option

\* A slip: a catalog fetched once is reused for every request.
SetModelsConfig_Stale(option, modelsConfig) == [option EXCEPT !.modelsConfig = {"modelsA"}]

\* Line 83, after the await: req.body.endpointOption.modelsConfig = modelsConfig
SetModelsConfig(option, modelsConfig) == [option EXCEPT !.modelsConfig = {modelsConfig}]

\* A slip: one in-flight call is shared, and a continuation takes the
\* value of whichever call has resolved.
AwaitedCatalog_Shared(r) ==
  The(modelsPromise[CHOOSE q \in Requests : modelsPromise[q].state = "resolved"].value)

\* Line 82: `const modelsConfig = await getModelsConfig(req)` yields the
\* value of the promise this invocation created.
AwaitedCatalog(r) == The(modelsPromise[r].value)

ResumeWithModels(r) ==
  /\ r \in Requests
  /\ pc[r] = "AwaitingModels"
  /\ modelsPromise[r].state = "resolved"
  /\ MayRun(r)
  /\ body' = [body EXCEPT ![r].endpointOption =
       {SetModelsConfig(The(@), AwaitedCatalog(r))}]
  /\ pc' = [pc EXCEPT ![r] = "Attaching"]
  /\ running' = {r}
  /\ UNCHANGED <<modelSpecs, parsedBody, parseCalls, handleErrorCalls, builderCalls,
                 modelsPromise, attachPromise, processFilesCalls, getModelsConfigCalls,
                 nextCalls>>

\* Line 82 when the awaited promise rejects: the async function rejects.
ResumeRejected(r) ==
  /\ r \in Requests
  /\ pc[r] = "AwaitingModels"
  /\ modelsPromise[r].state = "rejected"
  /\ MayRun(r)
  /\ pc' = [pc EXCEPT ![r] = "Faulted"]
  /\ running' = {}
  /\ UNCHANGED <<modelSpecs, body, parsedBody, parseCalls, handleErrorCalls, builderCalls,
                 modelsPromise, attachPromise, processFilesCalls, getModelsConfigCalls,
                 nextCalls>>

\* The check an empty list does not pass: files has an element.
HasFiles_NonEmpty(b) == b.files # {} /\ Len(The(b.files)) > 0

\* Line 85: if (req.body.files)
HasFiles(b) == TruthyArray(b.files)

\* Lines 85-88: start processFiles and hold its promise, without awaiting.
Attach(r) ==
  /\ r \in Requests
  /\ pc[r] = "Attaching"
  /\ MayRun(r)
  /\ IF HasFiles(body[r])
       THEN /\ processFilesCalls' = [processFilesCalls EXCEPT ![r] = Append(@, The(body[r].files))]
            /\ attachPromise' = [attachPromise EXCEPT ![r] = "pending"]
            /\ body' = [body EXCEPT ![r].endpointOption =
                 {[The(@) EXCEPT !.attachments = {[promiseOf |-> The(body[r].files)]}]}]
       ELSE UNCHANGED <<processFilesCalls, attachPromise, body>>
  /\ pc' = [pc EXCEPT ![r] = "CallingNext"]
  /\ running' = {r}
  /\ UNCHANGED <<modelSpecs, parsedBody, parseCalls, handleErrorCalls, builderCalls,
                 modelsPromise, getModelsConfigCalls, nextCalls>>

\* A slip: next() is called before the files are looked at.
ReadyForNext_BeforeFiles(r) == pc[r] \in {"Attaching", "CallingNext"}

\* A slip: the promise of processFiles is awaited before next().
ReadyForNext_AwaitsFiles(r) == pc[r] = "CallingNext" /\ attachPromise[r] # "pending"

\* Line 89 is reached as soon as lines 85-88 are done: the promise of
\* processFiles is held, not awaited.
ReadyForNext(r) == pc[r] = "CallingNext"

\* Line 89: next()
CallNext(r) ==
  /\ r \in Requests
  /\ ReadyForNext(r)
  /\ MayRun(r)
  /\ nextCalls' = [nextCalls EXCEPT ![r] = @ + 1]
  /\ pc' = [pc EXCEPT ![r] = "Done"]
  /\ running' = {}
  /\ UNCHANGED <<modelSpecs, body, parsedBody, parseCalls, handleErrorCalls, builderCalls,
                 modelsPromise, attachPromise, processFilesCalls, getModelsConfigCalls>>

\* The file service settles the attachments promise, at any later time.
AttachmentsSettle(r) ==
  /\ r \in Requests
  /\ running = {}
  /\ attachPromise[r] = "pending"
  /\ \E outcome \in {"resolved", "rejected"} :
       attachPromise' = [attachPromise EXCEPT ![r] = outcome]
  /\ UNCHANGED <<modelSpecs, body, pc, parsedBody, parseCalls, handleErrorCalls, builderCalls,
                 modelsPromise, processFilesCalls, getModelsConfigCalls, nextCalls, running>>

Next ==
  \E r \in AllRequests :
    \/ Normalize(r)
    \/ EnforceSpec(r)
    \/ Dispatch(r)
    \/ GetModelsConfig(r)
    \/ ModelsConfigResolves(r)
    \/ ModelsConfigRejects(r)
    \/ ResumeWithModels(r)
    \/ ResumeRejected(r)
    \/ Attach(r)
    \/ CallNext(r)
    \/ AttachmentsSettle(r)

Spec == Init /\ [][Next]_vars
\* The event loop runs a continuation that is ready: a pipeline whose
\* awaited promise resolved is resumed, and a synchronous section runs to
\* its end.  Nothing makes the file service settle the attachments promise.
FairInit == Init0({"r1"}, ModelSpecsConfigsUpTo(FairMaxSpecs), Bodies)

FairSpec ==
  /\ FairInit
  /\ [][Next]_vars
  /\ \A r \in AllRequests :
       /\ WF_vars(ResumeWithModels(r))
       /\ WF_vars(Attach(r))
       /\ WF_vars(CallNext(r))


\* Two requests in flight at once.  Their bodies are well-formed payloads
\* that differ in endpoint, parameters and files; the administrator's
\* catalog is absent or enforces one spec for the openAI endpoint.
ConcBodies ==
  [endpoint : {"openAI", "agents"},
   endpointType : {{}},
   spec : {{"S"}},
   temperature : {{"0.9"}, {"0.7"}},
   tools : {{}},
   malformed : {FALSE},
   files : {{}, {<<"f1">>}, {<<"f2">>}},
   endpointOption : {{}}]

ConcConfigs ==
  {{},
   {[list |-> {<<[name |-> "S",
                  preset |-> [endpoint |-> "openAI", spec |-> {},
                              temperature |-> {"0.2"}, tools |-> {},
                              malformed |-> FALSE]]>>},
     enforce |-> TRUE]}}

ConcInit == Init0(AllRequests, ConcConfigs, ConcBodies)

ConcSpec == ConcInit /\ [][Next]_vars

\* ---------------------------------------------------------------- claims

\* Line 37, restated: the catalog has a list and its enforce flag is set.
EnforcementOn ==
  /\ modelSpecs # {}
  /\ The(modelSpecs).list # {}
  /\ The(modelSpecs).enforce = TRUE

Catalog == The(The(modelSpecs).list)

\* The index of the first catalog entry of a name, if any.
FirstNamed(name) ==
  {i \in 1..Len(Catalog) :
     /\ Catalog[i].name = name
     /\ \A j \in 1..(i - 1) : Catalog[j].name # name}

\* The conversation the parser makes of the client payload of r.
ClientConversation(r) ==
  [endpoint |-> body[r].endpoint,
   endpointType |-> body[r].endpointType,
   spec |-> body[r].spec,
   temperature |-> body[r].temperature,
   tools |-> body[r].tools]

\* The conversation the parser makes of a preset for request r.
PresetConversation(r, preset) ==
  [endpoint |-> body[r].endpoint,
   endpointType |-> body[r].endpointType,
   spec |-> preset.spec,
   temperature |-> preset.temperature,
   tools |-> preset.tools]

\* The pipeline of r has left the normaliser and the spec enforcer.
PastEnforcement(r) == pc[r] \notin {"Start", "EnforcingSpec"}

EnforcementTexts ==
  {"No model spec selected", "Invalid model spec", "Model spec mismatch",
   "Only the \"gptPlugins\" endpoint can have tools defined in the preset",
   "Error parsing model spec"}

\* C1: under active enforcement every conversation handed to a builder is
\* the parse of the preset of the first catalog entry named by the client's
\* spec, that preset's endpoint is the request's endpoint, and the client's
\* own parameter values (temperature, spec) do not reach the builder.
C1_PresetReachesBuilder ==
  \A r \in Requests :
    EnforcementOn =>
      \A k \in 1..Len(builderCalls[r]) :
        /\ body[r].spec \notin {{}, {""}}
        /\ \E i \in FirstNamed(The(body[r].spec)) :
             LET preset == Catalog[i].preset
                 given == builderCalls[r][k].conversation IN
             /\ given = PresetConversation(r, preset)
             /\ preset.endpoint = body[r].endpoint
             /\ given.temperature = {"0.2"}
             /\ given.temperature # body[r].temperature
             /\ given.spec # body[r].spec

\* A run under enforcement whose builder was invoked, with a catalog that
\* holds the requested name twice, with different presets.
C1_Witness ==
  \E r \in Requests :
    /\ EnforcementOn
    /\ pc[r] = "Done"
    /\ Len(builderCalls[r]) = 1
    /\ body[r].temperature = {"0.9"}
    /\ Len(Catalog) = 2
    /\ Catalog[1].name = "S" /\ Catalog[2].name = "S"
    /\ Catalog[1].preset # Catalog[2].preset

\* C2: with enforcement disabled (no modelSpecs, no list, or enforce false)
\* every conversation handed to a builder is the parse of the client
\* payload, whatever the client's spec field, no enforcement error is ever
\* reported, and only a malformed payload makes the run fail.
C2_DisabledPassesClient ==
  \A r \in Requests :
    (modelSpecs = {} \/ The(modelSpecs).list = {} \/ ~The(modelSpecs).enforce) =>
      /\ \A k \in 1..Len(builderCalls[r]) :
           builderCalls[r][k].conversation = ClientConversation(r)
      /\ \A k \in 1..Len(handleErrorCalls[r]) :
           handleErrorCalls[r][k] \notin EnforcementTexts
      /\ (pc[r] = "Failed" => body[r].malformed)
      /\ (pc[r] = "Done" => Len(builderCalls[r]) = 1)

\* A completed run with a catalog whose enforce flag is false and whose
\* list holds the name the client sent.
C2_Witness ==
  \E r \in Requests :
    /\ modelSpecs # {}
    /\ The(modelSpecs).list # {}
    /\ ~The(modelSpecs).enforce
    /\ body[r].spec = {"S"}
    /\ FirstNamed("S") # {}
    /\ pc[r] = "Done"
    /\ Len(builderCalls[r]) = 1

\* The option object of r as the builder returned it: what is left of
\* endpointOption when the two fields this stage adds are taken away.
BuiltPart(option) == [option EXCEPT !.modelsConfig = {}, !.attachments = {}]

\* C3 as stated: on every run that does not complete endpointOption is
\* unassigned, and in every state it is unset or carries modelsConfig.
C3_NeverPartial ==
  \A r \in Requests :
    /\ pc[r] \in {"Failed", "Faulted"} => body[r].endpointOption = {}
    /\ body[r].endpointOption = {} \/ The(body[r].endpointOption).modelsConfig # {}

\* C3, amended: endpointOption is unassigned on every run that reports an
\* error and on every run that faults at dispatch or in the builder; it is
\* assigned once, by line 79, and afterwards only its modelsConfig and
\* attachments fields change; once next was called it carries modelsConfig.
\* It is assigned without modelsConfig from the builder's return until the
\* models catalog resolves, and for good when that retrieval rejects; next
\* is not called in either case.
C3_NoPartialOnReportedFailure ==
  \A r \in Requests :
    LET option == body[r].endpointOption IN
    /\ pc[r] = "Failed" => option = {}
    /\ pc[r] = "Faulted" /\ modelsPromise[r].state = "none" => option = {}
    /\ option # {} =>
         /\ Len(builderCalls[r]) = 1
         /\ BuiltPart(The(option)) = buildOptions(builderCalls[r][1])
    /\ nextCalls[r] > 0 => option # {} /\ The(option).modelsConfig # {}
    /\ pc[r] \in {"Attaching", "CallingNext", "Done"} =>
         option # {} /\ The(option).modelsConfig # {}
    /\ option # {} /\ The(option).modelsConfig = {} =>
         /\ nextCalls[r] = 0
         /\ \/ pc[r] \in {"Built", "AwaitingModels"}
            \/ pc[r] = "Faulted" /\ modelsPromise[r].state = "rejected"

\* The models catalog retrieval rejected after the builder's result was
\* stored: the run has ended and endpointOption has no modelsConfig.
C3_Witness ==
  \E r \in Requests :
    /\ pc[r] = "Faulted"
    /\ modelsPromise[r].state = "rejected"
    /\ body[r].endpointOption # {}
    /\ The(body[r].endpointOption).modelsConfig = {}
    /\ nextCalls[r] = 0

\* C4: after a successful run attachments is present exactly when the
\* file list has at least one element; it is absent for a missing and for
\* an empty list.
C4_AttachmentsIffNonEmpty ==
  \A r \in Requests :
    pc[r] = "Done" =>
      (The(body[r].endpointOption).attachments # {}
         <=> (body[r].files # {} /\ Len(The(body[r].files)) > 0))

\* C4, what line 85 does instead: attachments is present exactly when
\* req.body.files is present, an empty list included (an array is truthy);
\* it is then the promise of the one processFiles call, made on that list.
C4_AttachmentsIffFilesPresent ==
  \A r \in Requests :
    pc[r] = "Done" =>
      LET option == The(body[r].endpointOption) IN
      /\ option.attachments # {} <=> body[r].files # {}
      /\ body[r].files = {} => processFilesCalls[r] = <<>> /\ attachPromise[r] = "none"
      /\ body[r].files # {} =>
           /\ processFilesCalls[r] = <<The(body[r].files)>>
           /\ option.attachments = {[promiseOf |-> The(body[r].files)]}

\* A completed run of a request whose files is the empty list: processFiles
\* was called on it and its promise is on endpointOption.
C4_Witness ==
  \E r \in Requests :
    /\ pc[r] = "Done"
    /\ body[r].files = {<<>>}
    /\ The(body[r].endpointOption).attachments # {}
    /\ processFilesCalls[r] = << <<>> >>

\* C5: once the models catalog retrieval of a request has resolved, the
\* pipeline reaches Done (next is called), also when the promise of
\* processFiles never settles: no step waits for it.
C5_DoneWithoutAttachments ==
  \A r \in AllRequests :
    (r \in Requests /\ modelsPromise[r].state = "resolved") ~> (r \in Requests /\ pc[r] = "Done")

\* next was called while the promise of processFiles is still pending.
C5_Witness ==
  \E r \in Requests :
    /\ pc[r] = "Done"
    /\ nextCalls[r] = 1
    /\ attachPromise[r] = "pending"
    /\ The(body[r].endpointOption).attachments # {}

\* C6: when next has been called, endpointOption.modelsConfig is the
\* catalog the getModelsConfig call of that request resolved to, that call
\* was made once, and next is not called before it resolved; this holds
\* for every builder and with and without files.
C6_ModelsConfigOnSuccess ==
  \A r \in Requests :
    /\ nextCalls[r] > 0 \/ pc[r] = "Done" =>
         /\ modelsPromise[r].state = "resolved"
         /\ body[r].endpointOption # {}
         /\ The(body[r].endpointOption).modelsConfig = modelsPromise[r].value
         /\ modelsPromise[r].value \in {{c} : c \in ModelsCatalogs}
         /\ getModelsConfigCalls[r] = 1
    /\ modelsPromise[r].state \in {"none", "pending", "rejected"} => nextCalls[r] = 0

\* A completed run without files whose retrieval resolved to the second
\* catalog.
C6_Witness ==
  \E r \in Requests :
    /\ pc[r] = "Done"
    /\ body[r].files = {}
    /\ modelsPromise[r].value = {"modelsB"}
    /\ The(body[r].endpointOption).modelsConfig = {"modelsB"}

\* The run of r has passed the normaliser with a well-formed payload and
\* the spec enforcer, when it ran, has finished.
Enforced(r) == EnforcementOn /\ ~body[r].malformed /\ PastEnforcement(r)

\* The run of r ended with exactly this reported error and no builder call.
EndedWith(r, text) ==
  /\ pc[r] = "Failed"
  /\ handleErrorCalls[r] = <<text>>
  /\ builderCalls[r] = <<>>
  /\ body[r].endpointOption = {}
  /\ nextCalls[r] = 0

\* C7: under enforcement a client conversation without spec (absent or
\* empty) ends the run with 'No model spec selected' and no builder call;
\* that text is reported for no other request.
C7_NoSpecSelected ==
  \A r \in Requests :
    Enforced(r) =>
      /\ body[r].spec \in {{}, {""}} => EndedWith(r, "No model spec selected")
      /\ body[r].spec \notin {{}, {""}} =>
           \A k \in 1..Len(handleErrorCalls[r]) :
             handleErrorCalls[r][k] # "No model spec selected"

\* An enforced run of a request whose spec is the empty string has ended.
C7_Witness ==
  \E r \in Requests :
    /\ Enforced(r)
    /\ body[r].spec = {""}
    /\ Len(Catalog) > 0
    /\ EndedWith(r, "No model spec selected")

\* C8: under enforcement, when the first entry named by spec has a preset
\* whose endpoint differs from the request's endpoint, the run ends with
\* 'Model spec mismatch' and no builder call; when the two are equal that
\* text is not reported, whatever endpointType is.
C8_SpecMismatch ==
  \A r \in Requests :
    Enforced(r) /\ body[r].spec \notin {{}, {""}} =>
      \A i \in FirstNamed(The(body[r].spec)) :
        /\ Catalog[i].preset.endpoint # body[r].endpoint
             => EndedWith(r, "Model spec mismatch")
        /\ Catalog[i].preset.endpoint = body[r].endpoint
             => \A k \in 1..Len(handleErrorCalls[r]) :
                  handleErrorCalls[r][k] # "Model spec mismatch"

\* A mismatch was reported for a request whose endpointType is set.
C8_Witness ==
  \E r \in Requests :
    /\ Enforced(r)
    /\ body[r].spec = {"S"}
    /\ body[r].endpointType = {"azureOpenAI"}
    /\ \E i \in FirstNamed("S") : Catalog[i].preset.endpoint # body[r].endpoint
    /\ EndedWith(r, "Model spec mismatch")

\* C9: under enforcement, when the matched preset has the request's
\* endpoint and declares tools, the run ends with the tools error, whose
\* text names gptPlugins, and no builder call, unless that endpoint is
\* gptPlugins; a gptPlugins preset with tools and a preset without tools
\* never get that error.
C9_ToolsOnlyForGptPlugins ==
  \A r \in Requests :
    Enforced(r) /\ body[r].spec \notin {{}, {""}} =>
      \A i \in FirstNamed(The(body[r].spec)) :
        LET preset == Catalog[i].preset
            toolsText == "Only the \"gptPlugins\" endpoint can have tools defined in the preset" IN
        preset.endpoint = body[r].endpoint =>
          /\ preset.tools # {} /\ preset.endpoint # "gptPlugins"
               => EndedWith(r, toolsText)
          /\ preset.tools = {} \/ preset.endpoint = "gptPlugins"
               => /\ \A k \in 1..Len(handleErrorCalls[r]) : handleErrorCalls[r][k] # toolsText
                  /\ Len(parseCalls[r]) = 2

\* Both sides happen: a gptPlugins preset with tools whose run completed.
C9_Witness ==
  \E r \in Requests :
    /\ Enforced(r)
    /\ body[r].spec = {"S"}
    /\ \E i \in FirstNamed("S") :
         /\ Catalog[i].preset.endpoint = "gptPlugins"
         /\ Catalog[i].preset.tools # {}
    /\ body[r].endpoint = "gptPlugins"
    /\ pc[r] = "Done"

\* C10: under enforcement a spec that is the name of no entry ends the run
\* with 'Invalid model spec'; when entries have that name, the first of
\* them in list order alone decides the outcome: its endpoint the mismatch
\* check, its tools the tools check, its preset the second parse and the
\* conversation given to the builder.
C10_FirstMatchDecides ==
  \A r \in Requests :
    Enforced(r) /\ body[r].spec \notin {{}, {""}} =>
      LET name == The(body[r].spec) IN
      /\ (\A i \in 1..Len(Catalog) : Catalog[i].name # name)
           => EndedWith(r, "Invalid model spec")
      /\ \A i \in FirstNamed(name) :
           LET preset == Catalog[i].preset IN
           /\ \A k \in 1..Len(handleErrorCalls[r]) :
                handleErrorCalls[r][k] # "Invalid model spec"
           /\ pc[r] = "Failed" =>
                handleErrorCalls[r] =
                  << IF preset.endpoint # body[r].endpoint THEN "Model spec mismatch"
                     ELSE IF preset.endpoint # "gptPlugins" /\ preset.tools # {}
                       THEN "Only the \"gptPlugins\" endpoint can have tools defined in the preset"
                     ELSE "Error parsing model spec" >>
           /\ pc[r] = "Failed" /\ handleErrorCalls[r] = <<"Error parsing model spec">>
                => preset.malformed
           /\ \A k \in 1..Len(builderCalls[r]) :
                builderCalls[r][k].conversation = PresetConversation(r, preset)

\* The requested name is that of both entries, the first passes every
\* check and the second would not: the run completed.
C10_Witness ==
  \E r \in Requests :
    /\ Enforced(r)
    /\ body[r].spec = {"S"}
    /\ Len(Catalog) = 2
    /\ Catalog[1].name = "S" /\ Catalog[2].name = "S"
    /\ Catalog[2].preset.endpoint # body[r].endpoint
    /\ pc[r] = "Done"

\* C11: a parse failure of the client payload and one of the preset both
\* end the run, the first with 'Error parsing conversation' and the second
\* with 'Error parsing model spec', never the other way round; the parser
\* is given the request's endpoint and endpointType in both calls, first
\* with req.body and then with the preset.
C11_DistinctParseErrors ==
  \A r \in Requests :
    LET errors == {handleErrorCalls[r][k] : k \in 1..Len(handleErrorCalls[r])} IN
    /\ body[r].malformed /\ pc[r] # "Start" =>
         /\ EndedWith(r, "Error parsing conversation")
         /\ Len(parseCalls[r]) = 1
    /\ "Error parsing conversation" \in errors =>
         body[r].malformed /\ Len(parseCalls[r]) = 1
    /\ "Error parsing model spec" \in errors =>
         /\ EndedWith(r, "Error parsing model spec")
         /\ ~body[r].malformed
         /\ Len(parseCalls[r]) = 2
         /\ body[r].spec \notin {{}, {""}}
         /\ \E i \in FirstNamed(The(body[r].spec)) : Catalog[i].preset.malformed
    /\ Len(parseCalls[r]) = 2 /\ pc[r] = "Failed" =>
         handleErrorCalls[r] = <<"Error parsing model spec">>
    /\ \A k \in 1..Len(parseCalls[r]) :
         /\ parseCalls[r][k].endpoint = body[r].endpoint
         /\ parseCalls[r][k].endpointType = body[r].endpointType
         /\ parseCalls[r][k].conversation = IF k = 1 THEN "req.body" ELSE "preset"

\* The preset of the requested spec passed the policy checks and failed to
\* parse, for a request that has an endpointType.
C11_Witness ==
  \E r \in Requests :
    /\ Enforced(r)
    /\ body[r].endpointType = {"azureOpenAI"}
    /\ Len(parseCalls[r]) = 2
    /\ EndedWith(r, "Error parsing model spec")

\* Lines 15-26, restated for the identifiers a request of the model names.
MappedBuilder ==
  [openAI |-> "openAI.buildOptions",
   azureOpenAI |-> "openAI.buildOptions",
   agents |-> "agents.buildOptions",
   gptPlugins |-> "gptPlugins.buildOptions"]

\* endpointType when the request has one, else endpoint.
DispatchId(r) ==
  IF body[r].endpointType # {} THEN The(body[r].endpointType) ELSE body[r].endpoint

\* The run of r has executed line 79 (the builder returned or threw) or
\* faulted on line 79 for want of a builder.
Dispatched(r) == pc[r] \in {"Built", "AwaitingModels", "Attaching", "CallingNext", "Done", "Faulted"}

\* C12: when the identifier (endpointType if present, else endpoint) is in
\* the dispatch table, a run that reaches dispatch invokes the builder the
\* table maps it to, once, with the normalised conversation as it is;
\* openAI and azureOpenAI have the same builder.
C12_DispatchByIdentifier ==
  /\ buildFunction("openAI") = buildFunction("azureOpenAI")
  /\ \A r \in Requests :
       /\ Len(builderCalls[r]) <= 1
       /\ Dispatched(r) /\ DispatchId(r) \in DOMAIN MappedBuilder =>
            /\ Len(builderCalls[r]) = 1
            /\ builderCalls[r][1].fn = MappedBuilder[DispatchId(r)]
            /\ builderCalls[r][1].conversation = The(parsedBody[r])
            /\ \/ builderCalls[r][1].conversation = ClientConversation(r)
               \/ \E i \in 1..Len(Catalog) :
                    builderCalls[r][1].conversation = PresetConversation(r, Catalog[i].preset)

\* A gptPlugins request of type azureOpenAI was given to the openAI
\* builder.
C12_Witness ==
  \E r \in Requests :
    /\ body[r].endpoint = "gptPlugins"
    /\ body[r].endpointType = {"azureOpenAI"}
    /\ pc[r] = "Done"
    /\ Len(builderCalls[r]) = 1
    /\ builderCalls[r][1].fn = "openAI.buildOptions"

\* C13: the agents builder is always invoked with the request object
\* before (endpoint, conversation, endpointType), and no other builder is
\* ever given the request, for every endpoint and endpointType.
C13_RequestOnlyForAgentsBuilder ==
  \A r \in Requests :
    \A k \in 1..Len(builderCalls[r]) :
      builderCalls[r][k].req <=> builderCalls[r][k].fn = "agents.buildOptions"

\* C13, what lines 75-76 do instead: the builder is chosen by
\* endpointType ?? endpoint and the request is bound by endpoint alone.
C13_RequestBoundByEndpoint ==
  \A r \in Requests :
    \A k \in 1..Len(builderCalls[r]) :
      /\ builderCalls[r][k].req <=> body[r].endpoint = "agents"
      /\ builderCalls[r][k].fn = MappedBuilder[DispatchId(r)]

\* An agents request of type azureOpenAI: the openAI builder was invoked
\* with the request object as its first argument.
C13_Witness ==
  \E r \in Requests :
    /\ body[r].endpoint = "agents"
    /\ body[r].endpointType = {"azureOpenAI"}
    /\ Len(builderCalls[r]) = 1
    /\ builderCalls[r][1].fn = "openAI.buildOptions"
    /\ builderCalls[r][1].req

\* The place of a position in the pipeline: Start, the enforcer, the
\* dispatcher, the enricher (lines 82, 83, 85-88, 89), Done; a run that
\* failed or faulted has ended.
Rank(p) ==
  CASE p = "Start" -> 0
    [] p = "EnforcingSpec" -> 1
    [] p = "Dispatching" -> 2
    [] p = "Built" -> 3
    [] p = "AwaitingModels" -> 4
    [] p = "Attaching" -> 5
    [] p = "CallingNext" -> 6
    [] p = "Done" -> 7
    [] OTHER -> 8

\* What has been called so far agrees with the position of r.
CallsInOrder(r) ==
  /\ Len(parseCalls[r]) <= 2
  /\ Len(builderCalls[r]) <= 1
  /\ getModelsConfigCalls[r] <= 1
  /\ Len(processFilesCalls[r]) <= 1
  /\ nextCalls[r] <= 1
  /\ pc[r] = "Start" <=> parseCalls[r] = <<>>
  /\ pc[r] = "EnforcingSpec" => EnforcementOn
  /\ builderCalls[r] # <<>> =>
       /\ handleErrorCalls[r] = <<>>
       /\ parsedBody[r] # {}
       /\ Len(parseCalls[r]) = IF EnforcementOn THEN 2 ELSE 1
  /\ getModelsConfigCalls[r] = 1 <=> modelsPromise[r].state # "none"
  /\ getModelsConfigCalls[r] = 1 =>
       Len(builderCalls[r]) = 1 /\ body[r].endpointOption # {}
  /\ processFilesCalls[r] # <<>> =>
       /\ modelsPromise[r].state = "resolved"
       /\ The(body[r].endpointOption).modelsConfig # {}
  /\ attachPromise[r] # "none" <=> processFilesCalls[r] # <<>>
  /\ nextCalls[r] = 1 <=> pc[r] = "Done"
  /\ nextCalls[r] = 1 =>
       /\ getModelsConfigCalls[r] = 1
       /\ body[r].files # {} => Len(processFilesCalls[r]) = 1

\* C14: every step of a run moves it forward in the order Start,
\* (EnforcingSpec), Dispatching, Enriching, Done, or ends it; an ended run
\* takes no step; the enforcer runs only when enforcement is active; the
\* builder is invoked after the parses and checks succeeded, getModelsConfig
\* after the builder returned, processFiles after the catalog resolved and
\* next last; the parser runs at most twice and the builder,
\* getModelsConfig, processFiles and next at most once.
C14_PipelineOrder ==
  [][\A r \in AllRequests :
       r \in Requests =>
         /\ pc'[r] # pc[r] => Rank(pc'[r]) > Rank(pc[r])
         /\ Rank(pc[r]) >= 7 =>
              /\ pc'[r] = pc[r]
              /\ body'[r] = body[r]
              /\ parseCalls'[r] = parseCalls[r]
              /\ builderCalls'[r] = builderCalls[r]
              /\ getModelsConfigCalls'[r] = getModelsConfigCalls[r]
              /\ processFilesCalls'[r] = processFilesCalls[r]
              /\ nextCalls'[r] = nextCalls[r]
         /\ CallsInOrder(r)
         /\ CallsInOrder(r)']_vars

\* A run that went through every stage: enforced, with files, done.
C14_Witness ==
  \E r \in Requests :
    /\ EnforcementOn
    /\ pc[r] = "Done"
    /\ Len(parseCalls[r]) = 2
    /\ Len(builderCalls[r]) = 1
    /\ getModelsConfigCalls[r] = 1
    /\ Len(processFilesCalls[r]) = 1
    /\ nextCalls[r] = 1

\* req.body without the field this stage writes.
ClientFields(b) == [b EXCEPT !.endpointOption = {}]

\* C15: no step of any run, successful or failed, changes the model spec
\* catalog (list, enforce flag, presets) or a field of req.body other than
\* endpointOption; endpointOption, once assigned, keeps what the builder
\* returned and only gains modelsConfig and attachments.
C15_WritesOnlyEndpointOption ==
  [][/\ modelSpecs' = modelSpecs
     /\ \A r \in AllRequests :
          r \in Requests =>
            /\ ClientFields(body'[r]) = ClientFields(body[r])
            /\ body[r].endpointOption # {} =>
                 /\ body'[r].endpointOption # {}
                 /\ BuiltPart(The(body'[r].endpointOption))
                      = BuiltPart(The(body[r].endpointOption))]_vars

\* An enforced run has completed: the preset was used and the client's
\* own spec and temperature are still on req.body, beside endpointOption.
C15_Witness ==
  \E r \in Requests :
    /\ EnforcementOn
    /\ pc[r] = "Done"
    /\ body[r].spec = {"S"}
    /\ body[r].temperature = {"0.9"}
    /\ body[r].files # {}
    /\ The(body[r].endpointOption).conversation.temperature = {"0.2"}
    /\ The(body[r].endpointOption).attachments # {}

\* What req.body.endpointOption of request r is made from, read from the
\* request's own payload and from the administrator's catalog alone.
OwnConversation(r) ==
  IF EnforcementOn
    THEN PresetConversation(r, Catalog[The(FirstNamed(The(body[r].spec)))].preset)
    ELSE ClientConversation(r)

\* C16: with two requests in flight, each request makes its own
\* getModelsConfig call, and its endpointOption holds the conversation
\* built for that request, the catalog its own call resolved to and the
\* handle of processFiles on its own files; a step that writes one
\* request's endpointOption is a step of that request's pipeline and
\* leaves the other request's body alone.
C16_RequestsIsolated ==
  /\ [](\A r \in AllRequests :
          r \in Requests =>
            /\ getModelsConfigCalls[r] <= 1
            /\ (modelsPromise[r].state # "none") = (getModelsConfigCalls[r] = 1)
            /\ body[r].endpointOption # {} =>
                 LET option == The(body[r].endpointOption) IN
                 /\ option.endpoint = body[r].endpoint
                 /\ option.conversation = OwnConversation(r)
                 /\ option.modelsConfig # {} =>
                      /\ modelsPromise[r].state = "resolved"
                      /\ option.modelsConfig = modelsPromise[r].value
                 /\ option.attachments # {} =>
                      /\ body[r].files # {}
                      /\ option.attachments = {[promiseOf |-> The(body[r].files)]}
                      /\ processFilesCalls[r] = <<The(body[r].files)>>
                 /\ pc[r] = "Done" => option.modelsConfig # {})
  /\ [][\A r \in AllRequests :
          r \in Requests /\ body'[r] # body[r] =>
            /\ pc'[r] # pc[r]
            /\ \A q \in Requests \ {r} : body'[q] = body[q] /\ pc'[q] = pc[q]]_vars

\* Both requests have completed after being suspended together; their
\* calls resolved to different catalogs, in the order opposite to the one
\* they were issued in or not, and their conversations and files differ.
C16_Witness ==
  /\ Requests = AllRequests
  /\ pc["r1"] = "Done"
  /\ pc["r2"] = "Done"
  /\ The(body["r1"].endpointOption).modelsConfig = {"modelsA"}
  /\ The(body["r2"].endpointOption).modelsConfig = {"modelsB"}
  /\ The(body["r1"].endpointOption).conversation
       # The(body["r2"].endpointOption).conversation
  /\ The(body["r1"].endpointOption).attachments = {[promiseOf |-> <<"f1">>]}
  /\ The(body["r2"].endpointOption).attachments = {[promiseOf |-> <<"f2">>]}

\* The error the conditions of lines 31-72 give for request r when they
\* are read top to bottom, from the payload and the catalog alone; {} when
\* every condition passes.
FirstFailure(r) ==
  LET b == body[r] IN
  IF b.malformed THEN {"Error parsing conversation"}
  ELSE IF ~EnforcementOn THEN {}
  ELSE IF b.spec \in {{}, {""}} THEN {"No model spec selected"}
  ELSE IF FirstNamed(The(b.spec)) = {} THEN {"Invalid model spec"}
  ELSE LET preset == Catalog[The(FirstNamed(The(b.spec)))].preset IN
    IF b.endpoint # preset.endpoint THEN {"Model spec mismatch"}
    ELSE IF preset.endpoint # "gptPlugins" /\ preset.tools # {}
      THEN {"Only the \"gptPlugins\" endpoint can have tools defined in the preset"}
    ELSE IF preset.malformed THEN {"Error parsing model spec"}
    ELSE {}

\* C17: the conditions are evaluated in the order client parse, spec
\* absent, spec not found, endpoint mismatch, tools not allowed, preset
\* parse, and the one error reported is that of the first that fails: a
\* preset that mismatches and has disallowed tools gives the mismatch
\* error, and a preset that fails a policy check is never parsed, so its
\* parse error is never the one reported.
C17_FirstFailureReported ==
  \A r \in Requests :
    /\ pc[r] = "EnforcingSpec" => handleErrorCalls[r] = <<>> /\ ~body[r].malformed
    /\ pc[r] \notin {"Start", "EnforcingSpec"} =>
         /\ handleErrorCalls[r] =
              IF FirstFailure(r) = {} THEN <<>> ELSE <<The(FirstFailure(r))>>
         /\ (pc[r] = "Failed") = (FirstFailure(r) # {})
         /\ EnforcementOn /\ ~body[r].malformed /\ body[r].spec \notin {{}, {""}}
            /\ FirstNamed(The(body[r].spec)) # {} =>
              LET preset == Catalog[The(FirstNamed(The(body[r].spec)))].preset
                  tools == preset.endpoint # "gptPlugins" /\ preset.tools # {}
                  mismatch == body[r].endpoint # preset.endpoint
              IN
              /\ mismatch /\ tools => handleErrorCalls[r] = <<"Model spec mismatch">>
              /\ (mismatch \/ tools) /\ preset.malformed =>
                   /\ handleErrorCalls[r] # <<"Error parsing model spec">>
                   /\ Len(parseCalls[r]) = 1

\* The requested preset mismatches the request's endpoint, declares tools
\* for an endpoint that may not have them and would not parse: the run
\* ended with the mismatch error.
C17_Witness ==
  \E r \in Requests :
    /\ Enforced(r)
    /\ body[r].spec = {"S"}
    /\ FirstNamed("S") # {}
    /\ LET preset == Catalog[The(FirstNamed("S"))].preset IN
       /\ preset.endpoint = "openAI"
       /\ body[r].endpoint = "gptPlugins"
       /\ preset.tools # {}
       /\ preset.malformed
    /\ EndedWith(r, "Model spec mismatch")

\* C18: handleError and next are each called at most once for a request
\* and never both; a reported failure is final: it is reported before
\* getModelsConfig is called (the first suspension), and from then on no
\* builder, getModelsConfig, processFiles or next call is made for the
\* request and endpointOption stays unset.
C18_FailureIsFinal ==
  /\ [](\A r \in AllRequests :
          r \in Requests =>
            /\ Len(handleErrorCalls[r]) <= 1
            /\ nextCalls[r] <= 1
            /\ ~(handleErrorCalls[r] # <<>> /\ nextCalls[r] > 0)
            /\ handleErrorCalls[r] # <<>> =>
                 /\ pc[r] = "Failed"
                 /\ builderCalls[r] = <<>>
                 /\ getModelsConfigCalls[r] = 0
                 /\ modelsPromise[r].state = "none"
                 /\ processFilesCalls[r] = <<>>
                 /\ attachPromise[r] = "none"
                 /\ nextCalls[r] = 0
                 /\ body[r].endpointOption = {})
  /\ [][\A r \in AllRequests :
          r \in Requests =>
            /\ handleErrorCalls[r] # <<>> => handleErrorCalls'[r] = handleErrorCalls[r]
            /\ handleErrorCalls'[r] # handleErrorCalls[r] =>
                 /\ getModelsConfigCalls[r] = 0
                 /\ running' = {}
            /\ nextCalls[r] > 0 => handleErrorCalls'[r] = <<>>]_vars

\* A policy failure has been reported for a request that carries files,
\* after its client payload parsed.
C18_Witness ==
  \E r \in Requests :
    /\ handleErrorCalls[r] = <<"Invalid model spec">>
    /\ Len(parseCalls[r]) = 1
    /\ body[r].files # {}
    /\ pc[r] = "Failed"

\* C19: a request whose identifier (endpointType if present, else
\* endpoint) has no builder never gets an endpointOption, a
\* getModelsConfig, processFiles or next call; when its run reaches
\* dispatch (no check of lines 31-72 failed) it ends there as a fault
\* without a handleError call, whether or not the endpoint is the agents
\* endpoint whose builder is wrapped.
C19_UnknownIdentifierFaults ==
  \A r \in Requests :
    DispatchId(r) \notin DOMAIN MappedBuilder =>
      /\ builderCalls[r] = <<>>
      /\ body[r].endpointOption = {}
      /\ getModelsConfigCalls[r] = 0
      /\ modelsPromise[r].state = "none"
      /\ processFilesCalls[r] = <<>>
      /\ nextCalls[r] = 0
      /\ pc[r] \in {"Start", "EnforcingSpec", "Dispatching", "Failed", "Faulted"}
      /\ pc[r] = "Faulted" => handleErrorCalls[r] = <<>> /\ FirstFailure(r) = {}
      /\ FirstFailure(r) = {} /\ pc[r] \notin {"Start", "EnforcingSpec", "Dispatching"} =>
           pc[r] = "Faulted"

\* An agents request of an unknown endpointType parsed and faulted at
\* dispatch: the wrapper was built around a missing builder.
C19_Witness ==
  \E r \in Requests :
    /\ body[r].endpoint = "agents"
    /\ body[r].endpointType = {"unknownProvider"}
    /\ Len(parseCalls[r]) = 1
    /\ pc[r] = "Faulted"
    /\ handleErrorCalls[r] = <<>>

\* C20: the builder invoked for a request is the one mapped to the
\* request's own endpointType, or to its endpoint when it has none: a
\* function of the request's pair alone, the same whether enforcement is
\* on or off.  The endpointType the parser and the builder are given is
\* the request's.  Under enforcement the conversation is the preset's,
\* also when the endpointType names the builder of another provider than
\* the endpoint the preset was written for.
C20_EnforcementKeepsBuilder ==
  \A r \in Requests :
    /\ \A k \in 1..Len(parseCalls[r]) :
         parseCalls[r][k].endpointType = body[r].endpointType
    /\ \A k \in 1..Len(builderCalls[r]) :
         LET call == builderCalls[r][k] IN
         /\ DispatchId(r) \in DOMAIN MappedBuilder
         /\ call.fn = MappedBuilder[DispatchId(r)]
         /\ call.endpoint = body[r].endpoint
         /\ call.endpointType = body[r].endpointType
         /\ call.conversation.endpointType = body[r].endpointType
         /\ EnforcementOn =>
              LET preset == Catalog[The(FirstNamed(The(body[r].spec)))].preset IN
              /\ preset.endpoint = body[r].endpoint
              /\ call.conversation.temperature = preset.temperature
              /\ call.conversation.tools = preset.tools
              /\ call.conversation.spec = preset.spec

\* Under enforcement a gptPlugins request of type azureOpenAI, whose spec
\* is a gptPlugins preset with tools, was built by the openAI builder
\* from the preset.
C20_Witness ==
  \E r \in Requests :
    /\ Enforced(r)
    /\ body[r].endpoint = "gptPlugins"
    /\ body[r].endpointType = {"azureOpenAI"}
    /\ pc[r] = "Done"
    /\ Len(builderCalls[r]) = 1
    /\ builderCalls[r][1].fn = "openAI.buildOptions"
    /\ builderCalls[r][1].conversation.temperature = {"0.2"}
    /\ builderCalls[r][1].conversation.tools = {<<"calculator">>}
====
